---- MODULE Spec2Model ----
(***************************************************************************)
(* Bid lifecycle and contract derivation of the farmer-aid-portal backend  *)
(* (app/routers/bids.py, campaigns.py, contracts.py) over the document     *)
(* store.  Every handler call is one action: the handler runs to           *)
(* completion against the store before the next call starts.               *)
(***************************************************************************)
EXTENDS Integers, FiniteSets, Sequences, TLC

\* ------------------------------------------------------------------ bounds
MaxBids == 2
MaxCampaigns == 1
\* handler calls in one run
MaxCalls == 4
MaxOrders == 1
\* contracts the registry's own create adds in one run
MaxContracts == 1

\* ------------------------------------------------------------------ values
None == "None"
\* a campaignId that names no stored campaign (ids are uuid4 strings)
NoCampaign == 0
\* an id field that is absent or None
NoId == 0
UserType == {"farmer", "buyer"}
BidStatus == {"pending", "accepted", "rejected", "counter_offered"}
CampaignStatus == {"active", "completed", "upcoming"}
BidActions == {"accept", "reject", "counter_offer"}
\* opaque display strings for money
BidAmounts == {"Rs2000"}
CounterAmounts == {"Rs2500"}
\* what a request may carry as counterAmount: absent, empty, or an amount
CounterInputs == {None, ""} \cup CounterAmounts
NotesInputs == {None, "note"}
AutoRejectNote == "Automatically rejected - another bid was accepted"
\* where a store call of handle_bid_action may raise (StoreError)
Faults ==
    {"none", "bid_get", "sweep_stream", "sweep_update", "campaign_get",
     "contract_set", "campaign_update", "bid_update"}
\* update() of a missing document: google-cloud-firestore raises NotFound,
\* the mock client ignores the call
Backends == {"firestore", "mock"}

VARIABLES
    campaigns,     \* collection 'campaigns': id -> document
    bids,          \* collection 'bids': id -> document
    contracts,     \* collection 'contracts': id -> document
    seq,           \* ids handed out so far, per collection (uuid4 is fresh)
    calls,         \* handler calls so far
    result,        \* the last call: its operation, its subject and HTTP status
    everAccepted,  \* history: <<bid id, campaignId>> of the successful accepts
    orders,        \* collection 'orders': id -> document
    reply,         \* the body of the last response of a read handler
    requests,      \* accept calls in flight, each between two store calls
    active_sessions,  \* web chat: user id -> the request queue registered
    session_modes,    \* web chat: user id -> "audio" or "text"
    streams,          \* web chat: the SSE streams that are open
    opened,           \* web chat: streams opened so far
    chat_reply,       \* web chat: the last answer of send_message_endpoint
    mock_db,          \* mock store: one collection, document id -> data
    mock_reply,       \* mock store: the last operation and what it returned
    user_sessions,    \* WhatsApp: phone number -> session
    arrived           \* WhatsApp: history: messages added, sessions made,
                      \* agent errors, and the sender and kind of the last message

\* the marketplace backends
PortalVars ==
    <<campaigns, bids, contracts, seq, calls, result, everAccepted, orders,
      reply, requests>>

\* the web chat application
ChatVars == <<active_sessions, session_modes, streams, opened, chat_reply>>

\* the mock store of the buyer backend
MockVars == <<mock_db, mock_reply>>

\* the WhatsApp function
WhatsAppVars == <<user_sessions, arrived>>

vars == <<PortalVars, ChatVars, MockVars, WhatsAppVars>>

\* the programs start with empty registries
InitBeside ==
    /\ active_sessions = << >>
    /\ session_modes = << >>
    /\ streams = {}
    /\ opened = 0
    /\ chat_reply = [user |-> 0, answer |-> "None", queue |-> 0]
    /\ mock_db = << >>
    /\ mock_reply = [op |-> "init", id |-> 0]
    /\ user_sessions = << >>
    /\ arrived = [messages |-> 0, sessions |-> 0, errors |-> 0,
                  last |-> <<"None", "None">>]

\* Python truthiness of an Optional[str]
Truthy(s) == s # None /\ s # ""

Result(op, code, id) == [op |-> op, code |-> code, id |-> id]

\* What one handler call does to the store.  createdAt / updatedAt are not
\* kept in the documents: datetime.now() only moves forward, so a document's
\* updatedAt changes exactly when the call stamps it, and `stamped` lists the
\* <<collection, id>> the call stamps.
Out(code, bs, cs, ks, sq, st) ==
    [code |-> code, bids |-> bs, campaigns |-> cs, contracts |-> ks,
     seq |-> sq, stamped |-> st]

\* raise HTTPException(status_code=code) before any write
Raise(code) == Out(code, bids, campaigns, contracts, seq, {})

Init ==
    /\ campaigns = << >>
    /\ bids = << >>
    /\ contracts = << >>
    /\ seq = [campaigns |-> 0, bids |-> 0, contracts |-> 0, orders |-> 0]
    /\ calls = 0
    /\ result = Result("init", 200, 0)
    /\ everAccepted = {}
    /\ orders = << >>
    /\ reply = None
    /\ requests = << >>
    /\ InitBeside

\* the store after a call, and the call's record
Apply(op, id, o) ==
    /\ calls < MaxCalls
    /\ calls' = calls + 1
    /\ campaigns' = o.campaigns
    /\ bids' = o.bids
    /\ contracts' = o.contracts
    /\ seq' = o.seq
    /\ result' = Result(op, o.code, id)
    /\ UNCHANGED <<orders, reply, requests>>

\* ------------------------------------------------------- campaigns.py
\* the crop metadata a campaign body carries: crop, cropType, location, duration
CropData ==
    {[crop |-> "Wheat", cropType |-> "Rabi", location |-> "Pune", duration |-> "90 days"],
     [crop |-> "Rice", cropType |-> "Kharif", location |-> "Mysuru", duration |-> "120 days"]}

\* ids of the parties, as the bodies of CreateCampaignOwned and
\* CreateBidSigned name them (userId and bidderId default to None)
UserIds == {"farmer_1", "buyer_1"}

\* CampaignCreate(**body).model_dump(by_alias=True) with its crop metadata and
\* its creator
CampaignOwned(status, user_type, crop_data, user_id) ==
    [userType |-> user_type, status |-> status, currentBid |-> None,
     totalBids |-> 0, contractId |-> NoId, finalPrice |-> None,
     crop |-> crop_data.crop, cropType |-> crop_data.cropType,
     location |-> crop_data.location, duration |-> crop_data.duration,
     userId |-> user_id]

\* a campaign of the first crop whose body names no creator
CampaignDoc(status, user_type) ==
    CampaignOwned(status, user_type,
                  CHOOSE d \in CropData : d.crop = "Wheat", None)

CreateCampaignOutcome(status, user_type) ==
    LET id == seq.campaigns + 1
    IN Out(201, bids, campaigns @@ (id :> CampaignDoc(status, user_type)),
           contracts, [seq EXCEPT !.campaigns = id], {<<"campaigns", id>>})

create_campaign(status, user_type) ==
    /\ seq.campaigns < MaxCampaigns
    /\ Apply("create_campaign", seq.campaigns + 1, CreateCampaignOutcome(status, user_type))

\* a field the request body leaves out
Unset == "Unset"

\* `if not ref.get().exists: raise HTTPException(status_code=404)`, left out
NotExistsUnchecked(docs, id) == FALSE

\* `if not ref.get().exists`
NotExists(docs, id) == id \notin DOMAIN docs

\* ref.delete() left out
NotDeleted(docs, id) == docs

\* d[k] = v of a Python dict
Put(d, k, v) == [x \in DOMAIN d \cup {k} |-> IF x = k THEN v ELSE d[x]]

\* ref.delete()
Deleted(docs, id) == [d \in DOMAIN docs \ {id} |-> docs[d]]

\* ref.update(data): the fields of `data` replace the stored ones, every
\* other stored field stays
Merged(doc, data) ==
    [f \in DOMAIN doc |-> IF f \in DOMAIN data THEN data[f] ELSE doc[f]]

\* a handler that only reads: the store stays, the response body is kept
Answer(op, id, code, body) ==
    /\ calls < MaxCalls
    /\ calls' = calls + 1
    /\ result' = Result(op, code, id)
    /\ reply' = body
    /\ UNCHANGED <<campaigns, bids, contracts, seq, orders, requests>>

\* CampaignCreate(**body).model_dump(by_alias=True): every field of the
\* schema, a field the body left out at its default.  The bodies modelled
\* leave out currentBid and totalBids.
CampaignCreateDump(status, user_type) ==
    [status |-> IF status = Unset THEN "upcoming" ELSE status,
     userType |-> IF user_type = Unset THEN "farmer" ELSE user_type,
     currentBid |-> None, totalBids |-> 0]

UpdateCampaignOutcome(campaign_id, status, user_type) ==
    IF NotExists(campaigns, campaign_id) THEN Raise(404)
    ELSE Out(200, bids,
             [campaigns EXCEPT ![campaign_id] =
                 Merged(campaigns[campaign_id], CampaignCreateDump(status, user_type))],
             contracts, seq, {<<"campaigns", campaign_id>>})

update_campaign(campaign_id, status, user_type) ==
    Apply("update_campaign", campaign_id,
          UpdateCampaignOutcome(campaign_id, status, user_type))

DeleteCampaignOutcome(campaign_id) ==
    IF NotExists(campaigns, campaign_id) THEN Raise(404)
    ELSE Out(200, bids, Deleted(campaigns, campaign_id), contracts, seq, {})

delete_campaign(campaign_id) ==
    Apply("delete_campaign", campaign_id, DeleteCampaignOutcome(campaign_id))

\* the response of get_campaign: its status and the document it returns
GetCampaignResponse(campaign_id) ==
    IF NotExists(campaigns, campaign_id) THEN [code |-> 404, body |-> None]
    ELSE [code |-> 200, body |-> campaigns[campaign_id]]

get_campaign(campaign_id) ==
    LET r == GetCampaignResponse(campaign_id)
    IN Answer("get_campaign", campaign_id, r.code, r.body)

\* ------------------------------------------------------- contracts.py
ContractStatus == {"active", "completed", "upcoming"}

\* ContractCreate.model_dump(by_alias=True): the schema has no originalBidId
ContractCreateDoc(status, agreed_price, original_campaign_id) ==
    [status |-> status, totalBids |-> 0, minimumQuotation |-> "Rs2000",
     currentBid |-> "Rs2000", agreedPrice |-> agreed_price,
     originalCampaignId |-> original_campaign_id, originalBidId |-> NoId]

CreateContractOutcome(status, agreed_price, original_campaign_id) ==
    LET id == seq.contracts + 1
    IN Out(201, bids, campaigns,
           contracts @@ (id :> ContractCreateDoc(status, agreed_price, original_campaign_id)),
           [seq EXCEPT !.contracts = id], {<<"contracts", id>>})

create_contract(status, agreed_price, original_campaign_id) ==
    Apply("create_contract", seq.contracts + 1,
          CreateContractOutcome(status, agreed_price, original_campaign_id))

\* ContractCreate(**body).model_dump(by_alias=True), as update_contract sends
\* it to update(): the schema's fields, originalBidId not being one
ContractCreateDump(status, agreed_price) ==
    [status |-> status, totalBids |-> 0, minimumQuotation |-> "Rs2000",
     currentBid |-> "Rs2000", agreedPrice |-> agreed_price,
     originalCampaignId |-> NoId]

UpdateContractOutcome(contract_id, status, agreed_price) ==
    IF NotExists(contracts, contract_id) THEN Raise(404)
    ELSE Out(200, bids, campaigns,
             [contracts EXCEPT ![contract_id] =
                 Merged(contracts[contract_id], ContractCreateDump(status, agreed_price))],
             seq, {<<"contracts", contract_id>>})

update_contract(contract_id, status, agreed_price) ==
    Apply("update_contract", contract_id,
          UpdateContractOutcome(contract_id, status, agreed_price))

DeleteContractOutcome(contract_id) ==
    IF NotExists(contracts, contract_id) THEN Raise(404)
    ELSE Out(200, bids, campaigns, Deleted(contracts, contract_id), seq, {})

delete_contract(contract_id) ==
    Apply("delete_contract", contract_id, DeleteContractOutcome(contract_id))

GetContractResponse(contract_id) ==
    IF NotExists(contracts, contract_id) THEN [code |-> 404, body |-> None]
    ELSE [code |-> 200, body |-> contracts[contract_id]]

get_contract(contract_id) ==
    LET r == GetContractResponse(contract_id)
    IN Answer("get_contract", contract_id, r.code, r.body)

\* ------------------------------------------------------- orders.py
OrderStatus == {"pending", "shipped", "delivered", "cancelled"}

\* OrderCreate(**body).model_dump(by_alias=True)
OrderDoc(status, amount) == [status |-> status, amount |-> amount]

\* what a call of the orders registry does to its collection
OrdersOut(code, os, sq, st) == [code |-> code, orders |-> os, seq |-> sq, stamped |-> st]

ApplyOrders(op, id, o) ==
    /\ calls < MaxCalls
    /\ calls' = calls + 1
    /\ orders' = o.orders
    /\ seq' = o.seq
    /\ result' = Result(op, o.code, id)
    /\ UNCHANGED <<campaigns, bids, contracts, reply, requests>>

CreateOrderOutcome(status, amount) ==
    LET id == seq.orders + 1
    IN OrdersOut(201, orders @@ (id :> OrderDoc(status, amount)),
                 [seq EXCEPT !.orders = id], {<<"orders", id>>})

create_order(status, amount) ==
    /\ seq.orders < MaxOrders
    /\ ApplyOrders("create_order", seq.orders + 1, CreateOrderOutcome(status, amount))

UpdateOrderOutcome(order_id, status, amount) ==
    IF NotExists(orders, order_id) THEN OrdersOut(404, orders, seq, {})
    ELSE OrdersOut(200,
                   [orders EXCEPT ![order_id] =
                       Merged(orders[order_id], OrderDoc(status, amount))],
                   seq, {<<"orders", order_id>>})

update_order(order_id, status, amount) ==
    ApplyOrders("update_order", order_id, UpdateOrderOutcome(order_id, status, amount))

DeleteOrderOutcome(order_id) ==
    IF NotExists(orders, order_id) THEN OrdersOut(404, orders, seq, {})
    ELSE OrdersOut(200, Deleted(orders, order_id), seq, {})

delete_order(order_id) ==
    ApplyOrders("delete_order", order_id, DeleteOrderOutcome(order_id))

GetOrderResponse(order_id) ==
    IF NotExists(orders, order_id) THEN [code |-> 404, body |-> None]
    ELSE [code |-> 200, body |-> orders[order_id]]

get_order(order_id) ==
    LET r == GetOrderResponse(order_id)
    IN Answer("get_order", order_id, r.code, r.body)

\* status_update.get("status"): a supported value, another text, or no value
StatusInputs == OrderStatus \cup {"returned", None}

AnyStatusText(new_status) == new_status # None

\* new_status in ["pending", "shipped", "delivered", "cancelled"]
SupportedStatus(new_status) == new_status \in OrderStatus

UpdateOrderStatusOutcome(order_id, new_status) ==
    IF NotExists(orders, order_id) THEN OrdersOut(404, orders, seq, {})
    ELSE IF ~SupportedStatus(new_status) THEN OrdersOut(400, orders, seq, {})
    ELSE OrdersOut(200,
                   [orders EXCEPT ![order_id] =
                       Merged(orders[order_id], [status |-> new_status])],
                   seq, {<<"orders", order_id>>})

update_order_status(order_id, new_status) ==
    ApplyOrders("update_order_status", order_id,
                UpdateOrderStatusOutcome(order_id, new_status))

\* ------------------------------------------------------- bids.py: create_bid
\* BidCreate(**body).model_dump(by_alias=True)
BidSigned(campaign_id, bidder_type, bidder_id, bid_amount, status) ==
    [campaignId |-> campaign_id, bidderType |-> bidder_type,
     bidderId |-> bidder_id,
     bidAmount |-> bid_amount, status |-> status, counterAmount |-> None,
     actionNotes |-> None, rejectedBy |-> None]

\* a bid whose body names no bidder
BidDoc(campaign_id, bidder_type, bid_amount, status) ==
    BidSigned(campaign_id, bidder_type, None, bid_amount, status)

\* create_bid with the campaign update that the handler has commented out
CreateBidOutcomeCounted(campaign_id, bidder_type, bid_amount, status) ==
    LET bid_id == seq.bids + 1
    IN Out(200, bids @@ (bid_id :> BidDoc(campaign_id, bidder_type, bid_amount, status)),
           [c \in DOMAIN campaigns |->
               IF c = campaign_id
               THEN [campaigns[c] EXCEPT !.totalBids = @ + 1, !.currentBid = bid_amount]
               ELSE campaigns[c]],
           contracts, [seq EXCEPT !.bids = bid_id], {<<"bids", bid_id>>})

CreateBidOutcome(campaign_id, bidder_type, bid_amount, status) ==
    LET bid_id == seq.bids + 1
    IN Out(200, bids @@ (bid_id :> BidDoc(campaign_id, bidder_type, bid_amount, status)),
           campaigns, contracts, [seq EXCEPT !.bids = bid_id], {<<"bids", bid_id>>})

create_bid(campaign_id, bidder_type, bid_amount, status) ==
    /\ seq.bids < MaxBids
    /\ Apply("create_bid", seq.bids + 1,
             CreateBidOutcome(campaign_id, bidder_type, bid_amount, status))

\* ------------------------------------------------ bids.py: handle_bid_action
\* "Assume buyer campaigns for cross-platform bidding": the stored campaign
\* is not read
campaign_user_type_stored(cs, campaign_id) ==
    IF campaign_id \in DOMAIN cs THEN cs[campaign_id].userType ELSE "buyer"

campaign_user_type(cs, campaign_id) == "buyer"

\* "Campaign creators can only accept bids from the opposite type"
OwnBid(creator_type, bid_data) == creator_type = bid_data.bidderType

NotACounterOfferAnyCreator(creator_type, bid_data) ==
    bid_data.status # "counter_offered"

\* "Farmers can only accept buyer counter-offers"
NotACounterOffer(creator_type, bid_data) ==
    creator_type = "farmer" /\ bid_data.status # "counter_offered"

\* the test of the sweep's loop body
ShouldAutoReject(other_bid_id, other_bid_data, bid_id) ==
    /\ other_bid_id # bid_id
    /\ other_bid_data.status \in {"pending", "counter_offered"}

\* the update the sweep sends
AutoRejected(other_bid_data) ==
    [other_bid_data EXCEPT !.status = "rejected", !.actionNotes = AutoRejectNote]

\* where('campaignId', '==', campaign_id).stream(), filtered by the loop
SweepTargets(bs, bid_id, campaign_id) ==
    {o \in DOMAIN bs : /\ bs[o].campaignId = campaign_id
                       /\ ShouldAutoReject(o, bs[o], bid_id)}

\* The loop, in stream order (by document id).  `failing` is the target whose
\* update raises, 0 when none does: the targets before it are written.
SweepDone(bs, bid_id, campaign_id, failing) ==
    {o \in SweepTargets(bs, bid_id, campaign_id) : failing = 0 \/ o < failing}

Sweep(bs, bid_id, campaign_id, failing) ==
    [o \in DOMAIN bs |->
        IF o \in SweepDone(bs, bid_id, campaign_id, failing)
        THEN AutoRejected(bs[o]) ELSE bs[o]]

agreed_price_bid_only(bid_data) == bid_data.bidAmount

\* bid_data.get('counterAmount') or bid_data.get('bidAmount', '')
agreed_price(bid_data) ==
    IF Truthy(bid_data.counterAmount) THEN bid_data.counterAmount
    ELSE bid_data.bidAmount

\* both parties taken from the bid
PartyOfBidder(role, bid_data, campaign_data) == bid_data.bidderId

\* bid_data.get('bidderId') if bid_data.get('bidderType') == role
\* else campaign_data.get('userId')
PartyOf(role, bid_data, campaign_data) ==
    IF bid_data.bidderType = role THEN bid_data.bidderId ELSE campaign_data.userId

contract_data(bid_data, bid_id, campaign_id, campaign_data) ==
    [crop |-> campaign_data.crop, cropType |-> campaign_data.cropType,
     location |-> campaign_data.location, duration |-> campaign_data.duration,
     farmerId |-> PartyOf("farmer", bid_data, campaign_data),
     buyerId |-> PartyOf("buyer", bid_data, campaign_data),
     status |-> "completed", totalBids |-> 1,
     minimumQuotation |-> agreed_price(bid_data),
     currentBid |-> agreed_price(bid_data),
     agreedPrice |-> agreed_price(bid_data),
     originalCampaignId |-> campaign_id, originalBidId |-> bid_id]

\* the campaign update skipped when the campaign already has a contract
CampaignCompletedOnce(campaign_data, contract_id, price) ==
    IF campaign_data.contractId # NoId THEN campaign_data
    ELSE [campaign_data EXCEPT !.status = "completed", !.contractId = contract_id,
                               !.finalPrice = price]

\* the link written without the status
CampaignLinked(campaign_data, contract_id, price) ==
    [campaign_data EXCEPT !.contractId = contract_id, !.finalPrice = price]

\* the update that marks the campaign completed
CampaignCompleted(campaign_data, contract_id, price) ==
    [campaign_data EXCEPT !.status = "completed", !.contractId = contract_id,
                          !.finalPrice = price]

ContractErrorRaised(failed) == failed

\* "Log error but don't fail the bid acceptance": except Exception: pass
ContractErrorSurfaces(failed) == FALSE

\* _create_contract_from_bid: what it leaves in campaigns and contracts, and
\* whether an error of it reaches handle_bid_action
create_contract_from_bid(cs, ks, sq, bid_data, bid_id, fault) ==
    LET campaign_id == bid_data.campaignId
        contract_id == sq.contracts + 1
        nothing == [campaigns |-> cs, contracts |-> ks, seq |-> sq, stamped |-> {}]
        written == [campaigns |-> cs,
                    contracts |-> ks @@ (contract_id :>
                        contract_data(bid_data, bid_id, campaign_id, cs[campaign_id])),
                    seq |-> [sq EXCEPT !.contracts = contract_id],
                    stamped |-> {<<"contracts", contract_id>>}]
    IN IF fault = "campaign_get"
       THEN nothing @@ [raised |-> ContractErrorSurfaces(TRUE)]
       ELSE IF campaign_id \notin DOMAIN cs
       THEN nothing @@ [raised |-> FALSE]
       ELSE IF fault = "contract_set"
       THEN nothing @@ [raised |-> ContractErrorSurfaces(TRUE)]
       ELSE IF fault = "campaign_update"
       THEN written @@ [raised |-> ContractErrorSurfaces(TRUE)]
       ELSE [written EXCEPT
                !.campaigns = [cs EXCEPT ![campaign_id] =
                    CampaignCompleted(cs[campaign_id], contract_id, agreed_price(bid_data))],
                !.stamped = @ \cup {<<"campaigns", campaign_id>>}]
            @@ [raised |-> FALSE]

\* if action.notes: bid_data['actionNotes'] = action.notes
WithNotes(bid_data, notes) ==
    IF Truthy(notes) THEN [bid_data EXCEPT !.actionNotes = notes] ELSE bid_data

\* the closing update stored although the store call raised
FinishStored(bs, cs, ks, sq, st, bid_id, bid_data, notes, fault) ==
    Out(IF fault = "bid_update" THEN 500 ELSE 200,
        [bs EXCEPT ![bid_id] = WithNotes(bid_data, notes)], cs, ks, sq,
        st \cup {<<"bids", bid_id>>})

\* the closing update of the bid, then the response
Finish(bs, cs, ks, sq, st, bid_id, bid_data, notes, fault) ==
    IF fault = "bid_update"
    THEN Out(500, bs, cs, ks, sq, st)
    ELSE Out(200, [bs EXCEPT ![bid_id] = WithNotes(bid_data, notes)], cs, ks, sq,
             st \cup {<<"bids", bid_id>>})

AcceptOutcome(bid_id, notes, fault, failing) ==
    LET bid_data == bids[bid_id]
        creator_type == campaign_user_type(campaigns, bid_data.campaignId)
        accepted == [bid_data EXCEPT !.status = "accepted"]
        campaign_id == bid_data.campaignId
        swept == Sweep(bids, bid_id, campaign_id, failing)
        st == {<<"bids", o>> : o \in SweepDone(bids, bid_id, campaign_id, failing)}
        d == create_contract_from_bid(campaigns, contracts, seq, accepted, bid_id, fault)
    IN IF OwnBid(creator_type, bid_data) THEN Raise(400)
       ELSE IF NotACounterOffer(creator_type, bid_data) THEN Raise(400)
       ELSE IF fault = "sweep_stream" THEN Raise(500)
       ELSE IF fault = "sweep_update" THEN Out(500, swept, campaigns, contracts, seq, st)
       ELSE IF d.raised
       THEN Out(500, swept, d.campaigns, d.contracts, d.seq, st \cup d.stamped)
       ELSE Finish(swept, d.campaigns, d.contracts, d.seq, st \cup d.stamped,
                   bid_id, accepted, notes, fault)

rejected_by_bidder(bid_data) == bid_data.bidderType

\* bidderType farmer: rejected by the buyer, and the other way round
rejected_by(bid_data) == IF bid_data.bidderType = "farmer" THEN "buyer" ELSE "farmer"

RejectOutcome(bid_id, notes, fault) ==
    LET bid_data == bids[bid_id]
        rejected == [bid_data EXCEPT !.status = "rejected",
                                     !.rejectedBy = rejected_by(bid_data)]
    IN Finish(bids, campaigns, contracts, seq, {}, bid_id, rejected, notes, fault)

CounterAmountIsNone(counter_amount) == counter_amount = None

\* if not action.counter_amount
CounterAmountMissing(counter_amount) == ~Truthy(counter_amount)

CounterOfferedAndCounted(campaign_data, counter_amount) ==
    [campaign_data EXCEPT !.currentBid = counter_amount, !.totalBids = @ + 1]

\* "Update the campaign's current bid to reflect the counter offer"
CounterOffered(campaign_data, counter_amount) ==
    [campaign_data EXCEPT !.currentBid = counter_amount]

CounterOfferOutcome(bid_id, counter_amount, notes, fault, backend) ==
    LET bid_data == bids[bid_id]
        campaign_id == bid_data.campaignId
        countered == [bid_data EXCEPT !.status = "counter_offered",
                                      !.counterAmount = counter_amount]
    IN IF CounterAmountMissing(counter_amount) THEN Raise(400)
       ELSE IF fault = "campaign_update" THEN Raise(500)
       ELSE IF campaign_id \notin DOMAIN campaigns
       THEN IF backend = "firestore" THEN Raise(500)
            ELSE Finish(bids, campaigns, contracts, seq, {}, bid_id, countered, notes, fault)
       ELSE Finish(bids,
                   [campaigns EXCEPT ![campaign_id] =
                       CounterOffered(campaigns[campaign_id], counter_amount)],
                   contracts, seq, {<<"campaigns", campaign_id>>},
                   bid_id, countered, notes, fault)

BidActionOutcome(bid_id, action, counter_amount, notes, fault, failing, backend) ==
    IF fault = "bid_get" THEN Raise(500)
    ELSE IF bid_id \notin DOMAIN bids THEN Raise(404)
    ELSE IF action = "accept" THEN AcceptOutcome(bid_id, notes, fault, failing)
    ELSE IF action = "reject" THEN RejectOutcome(bid_id, notes, fault)
    ELSE CounterOfferOutcome(bid_id, counter_amount, notes, fault, backend)

\* the store calls an action makes, where one may raise
FaultsOf(action) ==
    IF action = "accept" THEN Faults
    ELSE IF action = "reject" THEN {"none", "bid_get", "bid_update"}
    ELSE {"none", "bid_get", "campaign_update", "bid_update"}

\* the sweep update that raises under fault "sweep_update"
FailingOf(bid_id, action, fault) ==
    IF fault = "sweep_update" /\ bid_id \in DOMAIN bids
    THEN SweepTargets(bids, bid_id, bids[bid_id].campaignId)
    ELSE {0}

\* the client behind get_db(); it shows only where update() meets a missing
\* document: the counter-offer on a bid whose campaign is not stored
BackendsOf(bid_id, action) ==
    IF /\ action = "counter_offer"
       /\ bid_id \in DOMAIN bids
       /\ bids[bid_id].campaignId \notin DOMAIN campaigns
    THEN Backends ELSE {"firestore"}

handle_bid_action(bid_id, action, counter_amount, notes, fault, failing, backend) ==
    LET o == BidActionOutcome(bid_id, action, counter_amount, notes, fault, failing, backend)
    IN Apply(action, bid_id, o)

\* ------------------------- handle_bid_action 'accept', store call by store call
\* Two clients; client p sends accept for bid p.  Nothing orders a store
\* call of one request against those of the other: no lock, no transaction.
Callers == {1, 2}

\* the locals of a request between two store calls; `updated` is history:
\* the rank of its campaign update among those written, 0 before it
Request(pc, bid_data, targets, campaign_data, contract_id, code, updated) ==
    [pc |-> pc, bid_data |-> bid_data, targets |-> targets,
     campaign_data |-> campaign_data, contract_id |-> contract_id,
     code |-> code, updated |-> updated]

\* a request that has not made its first store call
Arrived == Request("get_bid", << >>, {}, << >>, NoId, 0, 0)

\* the fields a bid document gets only from an action
OptionalFields == {"counterAmount", "actionNotes", "rejectedBy"}

\* bid_ref.update(bid_data): the keys of bid_data replace the stored fields;
\* an optional field that bid_data does not have (None here) stays as stored
UpdateFields(stored, bid_data) ==
    [f \in DOMAIN stored |->
        IF f \in OptionalFields /\ bid_data[f] = None THEN stored[f]
        ELSE bid_data[f]]

\* the request answers: the HTTP status goes to the client
Respond(p, code) ==
    /\ requests' = [requests EXCEPT ![p].pc = "done", ![p].code = code]
    /\ result' = Result("accept", code, p)
    /\ calls' = calls + 1

Continue(p, next) ==
    /\ requests' = [requests EXCEPT ![p] = next]
    /\ UNCHANGED <<result, calls>>

\* bid_ref.get(), the 404 test and the two validations
AcceptGetBid(p) ==
    /\ requests[p].pc = "get_bid"
    /\ IF p \notin DOMAIN bids THEN Respond(p, 404)
       ELSE LET bid_data == bids[p]
                creator_type == campaign_user_type(campaigns, bid_data.campaignId)
            IN IF OwnBid(creator_type, bid_data) \/ NotACounterOffer(creator_type, bid_data)
               THEN Respond(p, 400)
               ELSE Continue(p, [requests[p] EXCEPT
                        !.pc = "stream",
                        !.bid_data = [bid_data EXCEPT !.status = "accepted"]])
    /\ UNCHANGED <<campaigns, bids, contracts, seq, orders, reply>>

\* where('campaignId', '==', campaign_id).stream(): the siblings as they
\* are stored now; the loop tests the status it read
AcceptStream(p) ==
    /\ requests[p].pc = "stream"
    /\ Continue(p, [requests[p] EXCEPT
            !.pc = "sweep",
            !.targets = SweepTargets(bids, p, requests[p].bid_data.campaignId)])
    /\ UNCHANGED <<campaigns, bids, contracts, seq, orders, reply>>

\* one other_bid_doc.reference.update(...) of the loop, in stream order
AcceptSweepUpdate(p) ==
    /\ requests[p].pc = "sweep"
    /\ requests[p].targets # {}
    /\ LET o == CHOOSE x \in requests[p].targets :
                    \A y \in requests[p].targets : x <= y
       IN /\ bids' = [bids EXCEPT ![o] = AutoRejected(bids[o])]
          /\ Continue(p, [requests[p] EXCEPT !.targets = @ \ {o}])
    /\ UNCHANGED <<campaigns, contracts, seq, orders, reply>>

\* _create_contract_from_bid: campaign_doc.get(); it returns when the
\* campaign is not stored
AcceptCampaignGet(p) ==
    /\ requests[p].pc = "sweep"
    /\ requests[p].targets = {}
    /\ LET campaign_id == requests[p].bid_data.campaignId
       IN IF campaign_id \notin DOMAIN campaigns
          THEN Continue(p, [requests[p] EXCEPT !.pc = "bid_update"])
          ELSE Continue(p, [requests[p] EXCEPT
                   !.pc = "contract_set",
                   !.campaign_data = campaigns[campaign_id]])
    /\ UNCHANGED <<campaigns, bids, contracts, seq, orders, reply>>

\* contract_ref = db.collection('contracts').document(); contract_ref.set(...)
AcceptContractSet(p) ==
    /\ requests[p].pc = "contract_set"
    /\ LET r == requests[p]
           contract_id == seq.contracts + 1
       IN /\ contracts' = contracts @@ (contract_id :>
                 contract_data(r.bid_data, p, r.bid_data.campaignId, r.campaign_data))
          /\ seq' = [seq EXCEPT !.contracts = contract_id]
          /\ Continue(p, [r EXCEPT !.pc = "campaign_update",
                                   !.contract_id = contract_id])
    /\ UNCHANGED <<campaigns, bids, orders, reply>>

\* campaign_ref.update(campaign_updates), on the document as stored now
AcceptCampaignUpdate(p) ==
    /\ requests[p].pc = "campaign_update"
    /\ LET r == requests[p]
           campaign_id == r.bid_data.campaignId
           rank == 1 + Cardinality({q \in Callers : requests[q].updated > 0})
       IN /\ campaigns' = [campaigns EXCEPT ![campaign_id] =
                 CampaignCompleted(campaigns[campaign_id], r.contract_id,
                                   agreed_price(r.bid_data))]
          /\ Continue(p, [r EXCEPT !.pc = "bid_update", !.updated = rank])
    /\ UNCHANGED <<bids, contracts, seq, orders, reply>>

\* the closing bid_ref.update(bid_data), then the response
AcceptBidUpdate(p) ==
    /\ requests[p].pc = "bid_update"
    /\ bids' = [bids EXCEPT ![p] = UpdateFields(bids[p], requests[p].bid_data)]
    /\ Respond(p, 200)
    /\ UNCHANGED <<campaigns, contracts, seq, orders, reply>>

\* the store when the two accepts arrive: one campaign and two pending bids
\* of it, or two pending bids of a campaign that is not stored
InitRace ==
    \E creator \in UserType, u1 \in UserType, u2 \in UserType,
       campaign_id \in {1, NoCampaign} :
        /\ campaigns = (1 :> CampaignDoc("active", creator))
        /\ bids = (1 :> BidDoc(campaign_id, u1, "Rs2000", "pending"))
                   @@ (2 :> BidDoc(campaign_id, u2, "Rs2500", "pending"))
        /\ contracts = << >>
        /\ seq = [campaigns |-> 1, bids |-> 2, contracts |-> 0, orders |-> 0]
        /\ calls = 3
        /\ result = Result("create_bid", 200, 2)
        /\ everAccepted = {}
        /\ orders = << >>
        /\ reply = None
        /\ requests = [p \in Callers |-> Arrived]
        /\ InitBeside

\* --------------------------------------------------- bids.py: delete_bid
DeleteBidOutcome(bid_id) ==
    IF NotExists(bids, bid_id) THEN Raise(404)
    ELSE Out(200, Deleted(bids, bid_id), campaigns, contracts, seq, {})

delete_bid(bid_id) == Apply("delete_bid", bid_id, DeleteBidOutcome(bid_id))

\* ------------------------------------------------- bids.py: get_all_bids
\* a query parameter that is not sent (Query(None)); campaign ids are numbers
\* here, so the absent campaign_id is a number no id equals
NoFilter == -1

\* where(field, '==', value) on one document: a document that does not have
\* the field matches no value
Matches(doc, field, value) == field \in DOMAIN doc /\ doc[field] = value

\* the documents of the query get_all_bids builds, as ListResponse
GetAllBidsResponse(campaign_id, bidder_type, status) ==
    LET found == {b \in DOMAIN bids :
                    /\ campaign_id # NoFilter =>
                          Matches(bids[b], "campaign_id", campaign_id)
                    /\ Truthy(bidder_type) =>
                          Matches(bids[b], "bidder_type", bidder_type)
                    /\ Truthy(status) => Matches(bids[b], "status", status)}
    IN [code |-> 200,
        body |-> [data |-> [b \in found |-> bids[b]], count |-> Cardinality(found)]]

get_all_bids(campaign_id, bidder_type, status) ==
    LET r == GetAllBidsResponse(campaign_id, bidder_type, status)
    IN Answer("get_all_bids", 0, r.code, r.body)

\* -------------------------------------------- bids.py: get_bidding_stats
\* Amounts are texts, here sequences of characters; Rupee is the one
\* character U+20B9.
Rupee == "Rs"
Digits == <<"0", "1", "2", "3", "4", "5", "6", "7", "8", "9">>
IsDigit(ch) == \E i \in 1..10 : Digits[i] = ch
DigitValue(ch) == (CHOOSE i \in 1..10 : Digits[i] = ch) - 1

\* bid_data.get(key) of a text field: the empty text stands for None and
\* '', which `if` treats alike
GetText(doc, key) == IF key \in DOMAIN doc THEN doc[key] ELSE << >>

\* text.replace(ch, '')
Replace(text, ch) == SelectSeq(text, LAMBDA x : x # ch)

\* float() ignores blanks around the number
RECURSIVE Trimmed(_)
Trimmed(text) ==
    IF text = << >> THEN text
    ELSE IF Head(text) = " " THEN Trimmed(Tail(text))
    ELSE IF text[Len(text)] = " " THEN Trimmed(SubSeq(text, 1, Len(text) - 1))
    ELSE text

RECURSIVE DigitsValue(_)
DigitsValue(text) ==
    IF text = << >> THEN 0
    ELSE 10 * DigitsValue(SubSeq(text, 1, Len(text) - 1)) + DigitValue(text[Len(text)])

\* float(text), for texts of digits, blanks, commas, letters and the rupee
\* sign: a run of digits is its value, anything else raises ValueError
ParseFloat(text) ==
    LET t == Trimmed(text)
    IN IF t # << >> /\ \A i \in 1..Len(t) : IsDigit(t[i])
       THEN [ok |-> TRUE, value |-> DigitsValue(t)]
       ELSE [ok |-> FALSE, value |-> 0]

\* bid_data['bid_amount'].replace(rupee sign, '').replace(',', '')
amount_str(bid_amount) == Replace(Replace(bid_amount, Rupee), ",")

\* the documents whose amount enters bid_amounts
Counted(bs) ==
    {b \in DOMAIN bs :
        /\ GetText(bs[b], "bid_amount") # << >>
        /\ ParseFloat(amount_str(GetText(bs[b], "bid_amount"))).ok}

RECURSIVE SumOf(_, _)
SumOf(bs, ids) ==
    IF ids = {} THEN 0
    ELSE LET b == CHOOSE x \in ids : TRUE
         IN ParseFloat(amount_str(GetText(bs[b], "bid_amount"))).value
            + SumOf(bs, ids \ {b})

\* the number that f"{total / count:,.0f}" shows: the quotient rounded to
\* the nearest integer, a tie to the even one
RoundedQuotient(total, count) ==
    LET q == total \div count
        r == total % count
    IN IF 2 * r < count THEN q
       ELSE IF 2 * r > count THEN q + 1
       ELSE IF q % 2 = 0 THEN q ELSE q + 1

\* average_bid_amount: None, or the text of a number
NoAverage == [some |-> FALSE, shown |-> 0]
AverageText(n) == [some |-> TRUE, shown |-> n]

average_bid(bs) ==
    IF Counted(bs) = {} THEN NoAverage
    ELSE AverageText(RoundedQuotient(SumOf(bs, Counted(bs)), Cardinality(Counted(bs))))

GetBiddingStatsResponse ==
    [code |-> 200,
     body |-> [total_campaigns |-> Cardinality(DOMAIN campaigns),
               active_bids |->
                   Cardinality({b \in DOMAIN bids : Matches(bids[b], "status", "pending")}),
               successful_contracts |-> Cardinality(DOMAIN contracts),
               average_bid_amount |-> average_bid(bids)]]

get_bidding_stats ==
    Answer("get_bidding_stats", 0, GetBiddingStatsResponse.code,
           GetBiddingStatsResponse.body)

\* ------------------------------------------------------------------ steps
CreateCampaign ==
    \E s \in CampaignStatus, u \in UserType : create_campaign(s, u)

CreateBid ==
    \E c \in DOMAIN campaigns \cup {NoCampaign}, u \in UserType,
       a \in BidAmounts, s \in BidStatus : create_bid(c, u, a, s)

\* a call of handle_bid_action whose store calls fail only as `faults` allows
BidActionCall(faults) ==
    \E bid_id \in 1..MaxBids, action \in BidActions :
    \E counter_amount \in (IF action = "counter_offer" THEN CounterInputs ELSE {None}),
       notes \in NotesInputs, fault \in FaultsOf(action) \cap faults :
    \E failing \in FailingOf(bid_id, action, fault),
       backend \in BackendsOf(bid_id, action) :
        handle_bid_action(bid_id, action, counter_amount, notes, fault, failing, backend)

\* the store answers every call
HandleBidAction == BidActionCall({"none"})

\* some store call of the handler raises
HandleBidActionStoreError == BidActionCall(Faults \ {"none"})

\* a campaign with its crop metadata and its creator's id
CreateCampaignOwned ==
    /\ seq.campaigns < MaxCampaigns
    /\ \E u \in UserType, d \in CropData, user_id \in UserIds :
          LET id == seq.campaigns + 1
          IN Apply("create_campaign", id,
                   Out(201, bids,
                       campaigns @@ (id :> CampaignOwned("active", u, d, user_id)),
                       contracts, [seq EXCEPT !.campaigns = id],
                       {<<"campaigns", id>>}))

\* a pending bid with its bidder's id
CreateBidSigned ==
    /\ seq.bids < MaxBids
    /\ \E c \in DOMAIN campaigns \cup {NoCampaign}, u \in UserType,
          bidder_id \in UserIds :
          LET bid_id == seq.bids + 1
          IN Apply("create_bid", bid_id,
                   Out(200, bids @@ (bid_id :> BidSigned(c, u, bidder_id, "Rs2000", "pending")),
                       campaigns, contracts, [seq EXCEPT !.bids = bid_id],
                       {<<"bids", bid_id>>}))

\* a client that leaves the request's status to its default
CreateBidPending ==
    \E c \in DOMAIN campaigns \cup {NoCampaign}, u \in UserType, a \in BidAmounts :
        create_bid(c, u, a, "pending")

CreateContract ==
    \E s \in ContractStatus, a \in {None} \cup CounterAmounts :
        create_contract(s, a, NoId)

UpdateCampaign ==
    \E campaign_id \in 1..MaxCampaigns, s \in CampaignStatus \cup {Unset},
       u \in UserType \cup {Unset} : update_campaign(campaign_id, s, u)

DeleteCampaign == \E campaign_id \in 1..MaxCampaigns : delete_campaign(campaign_id)

GetCampaign == \E campaign_id \in 1..MaxCampaigns : get_campaign(campaign_id)

DeleteBid == \E bid_id \in 1..MaxBids : delete_bid(bid_id)

\* ids a registry call may name: those handed out and the next one
ContractIds == 1..(seq.contracts + 1)
OrderIds == 1..(seq.orders + 1)
OrderAmounts == {"Rs500", "Rs900"}

CreateContractOnce ==
    /\ seq.contracts < MaxContracts
    /\ \E s \in ContractStatus : create_contract(s, None, NoId)

UpdateContract ==
    \E contract_id \in ContractIds, s \in ContractStatus, a \in CounterAmounts :
        update_contract(contract_id, s, a)

DeleteContract == \E contract_id \in ContractIds : delete_contract(contract_id)

GetContract == \E contract_id \in ContractIds : get_contract(contract_id)

CreateOrder == \E s \in OrderStatus, a \in OrderAmounts : create_order(s, a)

UpdateOrder ==
    \E order_id \in OrderIds, s \in OrderStatus, a \in OrderAmounts :
        update_order(order_id, s, a)

DeleteOrder == \E order_id \in OrderIds : delete_order(order_id)

GetOrder == \E order_id \in OrderIds : get_order(order_id)

\* amounts as clients write them: "Rs2,000", "Rs3001", "2000 pq", ""
AmountTexts ==
    {<<Rupee, "2", ",", "0", "0", "0">>, <<Rupee, "3", "0", "0", "1">>,
     <<"2", "0", "0", "0", " ", "p", "q">>, << >>}

CreateBidText ==
    \E c \in DOMAIN campaigns \cup {NoCampaign}, u \in UserType,
       a \in AmountTexts, st \in {"pending", "accepted"} : create_bid(c, u, a, st)

GetAllBids ==
    \E c \in DOMAIN campaigns \cup {NoCampaign, NoFilter},
       u \in UserType \cup {None}, st \in {"pending", "accepted", None} :
        get_all_bids(c, u, st)

GetBiddingStats == get_bidding_stats

\* the other programs do not share the marketplace's store
Beside == UNCHANGED <<ChatVars, MockVars, WhatsAppVars>>

\* the history of accepted bids is not followed
Untracked == UNCHANGED everAccepted /\ Beside

\* every bid that an accept call answers with success enters the history
Tracked ==
    everAccepted' = everAccepted \cup
        (IF result'.op = "accept" /\ result'.code = 200
         THEN {<<result'.id, bids'[result'.id].campaignId>>} ELSE {})
    /\ Beside

\* ------------------- buyer backend: services/firestore_config.py (mock store)
MaxMockDocs == 3

\* Document ids of one collection are 0..MaxMockDocs: n stands for "doc_n",
\* 0 for an id of another form (the uuid4 of document() without an argument).
\* doc_id = f"doc_{len(mock_db[self.collection_name]) + 1}"
AddId(collection) == Cardinality(DOMAIN collection) + 1

\* MockFirestoreCollection.add
mock_add(data) ==
    /\ AddId(mock_db) \in 0..MaxMockDocs
    /\ mock_db' = Put(mock_db, AddId(mock_db), data)
    /\ mock_reply' = [op |-> "add", id |-> AddId(mock_db)]
    /\ UNCHANGED <<PortalVars, ChatVars, WhatsAppVars>>

\* MockFirestoreDocument.set
mock_set(doc_id, data) ==
    /\ mock_db' = Put(mock_db, doc_id, data)
    /\ mock_reply' = [op |-> "set", id |-> doc_id]
    /\ UNCHANGED <<PortalVars, ChatVars, WhatsAppVars>>

\* MockFirestoreDocument.delete
mock_delete(doc_id) ==
    /\ mock_db' = Deleted(mock_db, doc_id)
    /\ mock_reply' = [op |-> "delete", id |-> doc_id]
    /\ UNCHANGED <<PortalVars, ChatVars, WhatsAppVars>>

\* one collection of the mock store under add, set and delete
NextMock ==
    \/ \E data \in OrderStatus : mock_add([status |-> data])
    \/ \E doc_id \in 0..MaxMockDocs, data \in OrderStatus :
          mock_set(doc_id, [status |-> data])
    \/ \E doc_id \in 0..MaxMockDocs : mock_delete(doc_id)

SpecMock == Init /\ [][NextMock]_vars

\* ------------------------- farmer-vertex-ai/functions/whatsapp_full.py
MaxMessages == 23
MaxSessions == 2
MaxAgentErrors == 1
HistoryLimit == 20
Phones == {"p1", "p2"}
\* the supported language a command names or the detection finds
Languages == {"hi"}

\* seq[-n:]
Last(history, n) ==
    IF Len(history) <= n THEN history
    ELSE SubSeq(history, Len(history) - n + 1, Len(history))

\* the truncation keeping the oldest messages
add_message_oldest(session, role) ==
    LET appended == Append(session.chat_history,
                           [role |-> role, content |-> session.added + 1])
    IN [session EXCEPT
           !.chat_history = IF Len(appended) > HistoryLimit
                            THEN SubSeq(appended, 1, HistoryLimit) ELSE appended,
           !.added = @ + 1]

\* UserSession.add_message; the content is the number of the message in
\* the session
add_message(session, role) ==
    LET appended == Append(session.chat_history,
                           [role |-> role, content |-> session.added + 1])
    IN [session EXCEPT
           !.chat_history = IF Len(appended) > HistoryLimit
                            THEN Last(appended, HistoryLimit) ELSE appended,
           !.added = @ + 1]

\* get_user_session: the registry after the call; the session returned is
\* its entry for phone_number.  In a new UserSession `born` tells the
\* objects apart and `added` counts the add_message calls on the object
\* (both are history, not fields).
get_user_session(sessions, phone_number, born) ==
    IF phone_number \notin DOMAIN sessions
    THEN Put(sessions, phone_number,
             [chat_history |-> << >>, preferred_language |-> None,
              born |-> born, added |-> 0])
    ELSE sessions

\* get_user_preferred_language: without a preferred language, the language
\* detected in the user messages among the last three is kept
get_user_preferred_language(sessions, phone_number, born, detected) ==
    LET got == get_user_session(sessions, phone_number, born)
        recent == Last(got[phone_number].chat_history, 3)
    IN IF got[phone_number].preferred_language # None THEN got
       ELSE IF \E i \in DOMAIN recent : recent[i].role = "user"
       THEN [got EXCEPT ![phone_number].preferred_language = detected]
       ELSE got

\* process_message_and_respond on a message of a kind: "language" (the
\* command naming `lang`), "clear" ('/clear') or "text" (a message whose
\* language is detected as `lang`, handed to process_message_with_agent: the
\* user's message is added, then the agent's answer unless the agent raises).
process_message_and_respond(phone_number, kind, lang, agent_ok) ==
    LET born == arrived.sessions + 1
        known == get_user_preferred_language(user_sessions, phone_number, born, lang)
        asked == add_message(known[phone_number], "user")
        Processed ==
            IF kind = "language"
            THEN [get_user_session(user_sessions, phone_number, born)
                     EXCEPT ![phone_number].preferred_language = lang]
            ELSE IF kind = "clear" THEN Deleted(known, phone_number)
            ELSE [known EXCEPT ![phone_number] =
                     IF agent_ok THEN add_message(asked, "assistant") ELSE asked]
        made == IF phone_number \in DOMAIN user_sessions THEN 0 ELSE 1
        added == IF kind # "text" THEN 0 ELSE IF agent_ok THEN 2 ELSE 1
        errors == IF kind = "text" /\ ~agent_ok THEN 1 ELSE 0
    IN /\ arrived.sessions + made <= MaxSessions
       /\ arrived.messages + added <= MaxMessages
       /\ arrived.errors + errors <= MaxAgentErrors
       /\ kind # "text" => agent_ok
       /\ user_sessions' = Processed
       /\ arrived' = [messages |-> arrived.messages + added,
                      sessions |-> arrived.sessions + made,
                      errors |-> arrived.errors + errors,
                      last |-> <<phone_number, kind>>]
       /\ UNCHANGED <<PortalVars, ChatVars, MockVars>>

\* the webhook's text messages, one processed after the other
NextWhatsApp ==
    \/ \E phone_number \in Phones, lang \in Languages :
          process_message_and_respond(phone_number, "language", lang, TRUE)
    \/ \E phone_number \in Phones :
          process_message_and_respond(phone_number, "clear", "en", TRUE)
    \/ \E phone_number \in Phones, lang \in Languages, agent_ok \in BOOLEAN :
          process_message_and_respond(phone_number, "text", lang, agent_ok)

SpecWhatsApp == Init /\ [][NextWhatsApp]_vars

\* ------------------------------------------------- adk_agriAi/agent.py
\* where create_bid_tool may fail: Firestore not available, add() raising,
\* the campaign update raising
ToolFaults == {"none", "unavailable", "add", "campaign_update"}

\* What the tool writes and the message it returns.  update() of a campaign
\* that is not stored raises NotFound in the Firestore client.
CreateBidToolOutcome(campaign_id, bid_amount, fault) ==
    LET bid_id == seq.bids + 1
        bid_data == [campaignId |-> campaign_id, bidAmount |-> bid_amount,
                     status |-> "active"]
        added == bids @@ (bid_id :> bid_data)
        counted == [campaigns EXCEPT ![campaign_id].totalBids = @ + 1]
        sq == [seq EXCEPT !.bids = bid_id]
    IN IF fault \in {"unavailable", "add"}
       THEN Raise(500) @@ [message |-> "error"]
       ELSE IF fault = "campaign_update" \/ campaign_id \notin DOMAIN campaigns
       THEN Out(500, added, campaigns, contracts, sq, {<<"bids", bid_id>>})
                @@ [message |-> "error"]
       ELSE Out(200, added, counted, contracts, sq,
                {<<"bids", bid_id>>, <<"campaigns", campaign_id>>})
                @@ [message |-> "success"]

create_bid_tool(campaign_id, bid_amount, fault) ==
    /\ seq.bids < MaxBids
    /\ Apply("create_bid_tool", seq.bids + 1,
             CreateBidToolOutcome(campaign_id, bid_amount, fault))

\* the agent's tool on the campaigns of the marketplace
NextAgent ==
    \/ CreateCampaign /\ Untracked
    \/ (\E c \in DOMAIN campaigns \cup {NoCampaign}, a \in BidAmounts \cup CounterAmounts,
           fault \in ToolFaults : create_bid_tool(c, a, fault)) /\ Untracked

SpecAgent == Init /\ [][NextAgent]_vars

\* ------------------------------------------- adk_agriAi/web_app/main.py
MaxStreams == 3
Users == {1, 2}

\* GET /events/{user_id}: start_agent_session answers; the request queue is
\* named by the number of the stream it belongs to
sse_endpoint(user_id, is_audio) ==
    /\ opened < MaxStreams
    /\ LET live_request_queue == opened + 1
           session_mode == IF is_audio THEN "audio" ELSE "text"
       IN /\ opened' = live_request_queue
          /\ active_sessions' = Put(active_sessions, user_id, live_request_queue)
          /\ session_modes' = Put(session_modes, user_id, session_mode)
          /\ streams' = streams \cup {[queue |-> live_request_queue,
                                        user |-> user_id, mode |-> session_mode]}
    /\ UNCHANGED <<chat_reply, PortalVars, MockVars, WhatsAppVars>>

\* the `finally` of a stream's event_generator: cleanup()
cleanup(stream) ==
    /\ stream \in streams
    /\ streams' = streams \ {stream}
    /\ active_sessions' = Deleted(active_sessions, stream.user)
    /\ session_modes' = Deleted(session_modes, stream.user)
    /\ UNCHANGED <<opened, chat_reply, PortalVars, MockVars, WhatsAppVars>>

\* POST /send/{user_id}, up to the queue the message is sent to
SendMessageResponse(user_id) ==
    IF user_id \notin DOMAIN active_sessions
    THEN [user |-> user_id, answer |-> "Session not found", queue |-> 0]
    ELSE [user |-> user_id, answer |-> "sent", queue |-> active_sessions[user_id]]

send_message_endpoint(user_id) ==
    /\ chat_reply' = SendMessageResponse(user_id)
    /\ UNCHANGED <<active_sessions, session_modes, streams, opened,
                   PortalVars, MockVars, WhatsAppVars>>

\* streams open and end and messages are posted in any order
NextChat ==
    \/ \E user_id \in Users, is_audio \in BOOLEAN : sse_endpoint(user_id, is_audio)
    \/ \E stream \in streams : cleanup(stream)
    \/ \E user_id \in Users : send_message_endpoint(user_id)

SpecChat == Init /\ [][NextChat]_vars

Next ==
    \/ CreateCampaign /\ Untracked
    \/ CreateBid /\ Untracked
    \/ HandleBidAction /\ Untracked

Spec == Init /\ [][Next]_vars

\* the store may fail
NextFaulty ==
    \/ CreateCampaign /\ Untracked
    \/ CreateBid /\ Untracked
    \/ HandleBidAction /\ Untracked
    \/ HandleBidActionStoreError /\ Untracked

SpecFaulty == Init /\ [][NextFaulty]_vars

\* bids are created 'pending' and the accepted bids are remembered
NextHistory ==
    \/ CreateCampaign /\ Tracked
    \/ CreateBidPending /\ Tracked
    \/ HandleBidAction /\ Tracked

SpecHistory == Init /\ [][NextHistory]_vars

\* with the contracts registry's create
NextContracts ==
    \/ CreateCampaign /\ Untracked
    \/ CreateBidPending /\ Untracked
    \/ HandleBidAction /\ Untracked
    \/ CreateContract /\ Untracked

SpecContracts == Init /\ [][NextContracts]_vars

\* campaigns and bids with the campaign registry's update and the bid delete
NextSurface ==
    \/ CreateCampaign /\ Untracked
    \/ UpdateCampaign /\ Untracked
    \/ CreateBidPending /\ Untracked
    \/ HandleBidAction /\ Untracked
    \/ DeleteBid /\ Untracked

SpecSurface == Init /\ [][NextSurface]_vars

\* the three registries: create, read by id, update, delete
NextRegistry ==
    \/ CreateCampaign /\ Untracked
    \/ GetCampaign /\ Untracked
    \/ UpdateCampaign /\ Untracked
    \/ DeleteCampaign /\ Untracked
    \/ CreateContractOnce /\ Untracked
    \/ GetContract /\ Untracked
    \/ UpdateContract /\ Untracked
    \/ DeleteContract /\ Untracked
    \/ CreateOrder /\ Untracked
    \/ GetOrder /\ Untracked
    \/ UpdateOrder /\ Untracked
    \/ DeleteOrder /\ Untracked

SpecRegistry == Init /\ [][NextRegistry]_vars

\* campaigns with crop metadata and a creator, bids with a bidder
NextDerive ==
    \/ CreateCampaignOwned /\ Untracked
    \/ CreateBidSigned /\ Untracked
    \/ HandleBidAction /\ Untracked

SpecDerive == Init /\ [][NextDerive]_vars

\* the orders registry's writers
NextOrders ==
    \/ CreateOrder /\ Untracked
    \/ UpdateOrder /\ Untracked
    \/ (\E order_id \in OrderIds, new_status \in StatusInputs :
           update_order_status(order_id, new_status)) /\ Untracked

SpecOrders == Init /\ [][NextOrders]_vars

\* bids with amounts as texts, and the two read handlers of the bid surface
NextQueries ==
    \/ CreateCampaign /\ Untracked
    \/ CreateBidText /\ Untracked
    \/ GetAllBids /\ Untracked
    \/ GetBiddingStats /\ Untracked

SpecQueries == Init /\ [][NextQueries]_vars

\* two accepts in flight, interleaved store call by store call
NextRace ==
    \/ \E p \in Callers : AcceptGetBid(p) /\ Untracked
    \/ \E p \in Callers : AcceptStream(p) /\ Untracked
    \/ \E p \in Callers : AcceptSweepUpdate(p) /\ Untracked
    \/ \E p \in Callers : AcceptCampaignGet(p) /\ Untracked
    \/ \E p \in Callers : AcceptContractSet(p) /\ Untracked
    \/ \E p \in Callers : AcceptCampaignUpdate(p) /\ Untracked
    \/ \E p \in Callers : AcceptBidUpdate(p) /\ Untracked

SpecRace == InitRace /\ [][NextRace]_vars

\* the two accepts in flight, with whole calls of handle_bid_action by other
\* clients between their store calls
NextLinked ==
    \/ \E p \in Callers : AcceptGetBid(p) /\ Untracked
    \/ \E p \in Callers : AcceptStream(p) /\ Untracked
    \/ \E p \in Callers : AcceptSweepUpdate(p) /\ Untracked
    \/ \E p \in Callers : AcceptCampaignGet(p) /\ Untracked
    \/ \E p \in Callers : AcceptContractSet(p) /\ Untracked
    \/ \E p \in Callers : AcceptCampaignUpdate(p) /\ Untracked
    \/ \E p \in Callers : AcceptBidUpdate(p) /\ Untracked
    \/ HandleBidAction /\ Untracked

SpecLinked == InitRace /\ [][NextLinked]_vars

\* ------------------------------------------------------------------ claims
CampaignIdsInUse == DOMAIN campaigns \cup {NoCampaign}

AcceptedOn(bs, c) ==
    {b \in DOMAIN bs : bs[b].campaignId = c /\ bs[b].status = "accepted"}

ContractsOfBid(ks, b) == {k \in DOMAIN ks : ks[k].originalBidId = b}

\* the last call was a handle_bid_action `action` answered with `code`
LastCall(action, code) == result.op = action /\ result.code = code

\* the step is a handle_bid_action `action` on a stored bid, answered with `code`
CallStep(action, code) ==
    result'.op = action /\ result'.code = code /\ result'.id \in DOMAIN bids

\* accept on bid b, with every store call it makes failing as told
AcceptCall(b, notes, fault, failing) ==
    BidActionOutcome(b, "accept", None, notes, fault, failing, "firestore")

\* C1: in every state reached by create_bid and handle_bid_action calls, each
\* campaignId has at most one bid whose stored status is 'accepted'.
C1_SingleWinner ==
    \A c \in CampaignIdsInUse : Cardinality(AcceptedOn(bids, c)) <= 1

\* C2: after a successful accept of bid B on campaign C, every other bid of C
\* that was 'pending' or 'counter_offered' is 'rejected' with the automatic
\* note, and B is the only 'accepted' bid of C, whatever the other bids were.
C2_AcceptPostcondition ==
    [][CallStep("accept", 200) =>
        LET b == result'.id
            c == bids[b].campaignId
        IN /\ \A o \in DOMAIN bids \ {b} :
                (bids[o].campaignId = c /\ bids[o].status \in {"pending", "counter_offered"})
                => (bids'[o].status = "rejected" /\ bids'[o].actionNotes = AutoRejectNote)
           /\ AcceptedOn(bids', c) = {b}]_vars

\* C3: every successful accept adds exactly one contract, priced at the bid's
\* counterAmount if it has one and its bidAmount otherwise, and leaves the
\* parent campaign 'completed' and linked to it, also when the bid's
\* campaignId names no stored campaign.
C3_ContractOnEveryAccept ==
    [][CallStep("accept", 200) =>
        LET b == result'.id
            c == bids[b].campaignId
            new == DOMAIN contracts' \ DOMAIN contracts
            price == IF bids[b].counterAmount # None THEN bids[b].counterAmount
                     ELSE bids[b].bidAmount
        IN /\ Cardinality(new) = 1
           /\ \A k \in new : contracts'[k].agreedPrice = price
           /\ c \in DOMAIN campaigns'
           /\ campaigns'[c].status = "completed"
           /\ campaigns'[c].contractId \in new
           /\ campaigns'[c].finalPrice = price]_vars

\* C3 as amended: a successful accept of a bid whose campaign is stored, with
\* the campaign read, the contract write and the campaign update all
\* answered, adds exactly one contract at the agreed price and completes and
\* links the campaign; a successful accept of a bid whose campaignId names no
\* stored campaign adds no contract and changes no campaign.
C3_ContractWhenCampaignStored ==
    \A b \in DOMAIN bids, notes \in NotesInputs,
       fault \in {"none", "campaign_get", "contract_set", "campaign_update"} :
        LET o == AcceptCall(b, notes, fault, 0)
            c == bids[b].campaignId
            new == DOMAIN o.contracts \ DOMAIN contracts
            price == IF bids[b].counterAmount # None THEN bids[b].counterAmount
                     ELSE bids[b].bidAmount
        IN o.code = 200 =>
            /\ \A k \in DOMAIN contracts :
                  k \in DOMAIN o.contracts /\ o.contracts[k] = contracts[k]
            /\ DOMAIN o.campaigns = DOMAIN campaigns
            /\ (c \in DOMAIN campaigns /\ fault = "none") =>
                  /\ Cardinality(new) = 1
                  /\ \A k \in new :
                        /\ o.contracts[k].agreedPrice = price
                        /\ o.contracts[k].originalBidId = b
                        /\ o.campaigns[c].contractId = k
                  /\ o.campaigns[c].status = "completed"
                  /\ o.campaigns[c].finalPrice = price
            /\ c \notin DOMAIN campaigns =>
                  o.contracts = contracts /\ o.campaigns = campaigns

\* a contract exists for a bid that had a counter amount, at that amount
C3_Witness ==
    /\ LastCall("accept", 200)
    /\ result.id \in DOMAIN bids
    /\ bids[result.id].counterAmount \in CounterAmounts
    /\ \E k \in DOMAIN contracts :
          /\ contracts[k].originalBidId = result.id
          /\ contracts[k].agreedPrice = bids[result.id].counterAmount
          /\ campaigns[bids[result.id].campaignId].contractId = k

\* C4: over the history of a campaign, at most one bid is ever made
\* 'accepted': after one bid of C was accepted, no later bid action makes a
\* different bid of C accepted.
C4_OneWinnerEver ==
    \A c \in CampaignIdsInUse :
        Cardinality({p \in everAccepted : p[2] = c}) <= 1

\* C5: after every call each bid has at most one contract with its id as
\* originalBidId, also when accept is applied to it again, and a contract
\* that names a bid appears only in a successful accept.
C5_OneContractPerBid ==
    [][/\ \A b \in DOMAIN bids' : Cardinality(ContractsOfBid(contracts', b)) <= 1
       /\ \A k \in DOMAIN contracts' \ DOMAIN contracts :
             contracts'[k].originalBidId # NoId =>
                (result'.op = "accept" /\ result'.code = 200)]_vars

NothingWritten(o) ==
    /\ o.bids = bids
    /\ o.campaigns = campaigns
    /\ o.contracts = contracts
    /\ o.seq = seq
    /\ o.stamped = {}

DerivationFails(b, fault) ==
    \/ fault \in {"campaign_get", "contract_set", "campaign_update"}
    \/ bids[b].campaignId \notin DOMAIN campaigns

\* C8: when contract derivation fails during an accept (the campaign is not
\* stored, or the campaign read, the contract write or the campaign update
\* raises), the call still answers 200, the bid is stored 'accepted' and its
\* 'pending' and 'counter_offered' siblings are 'rejected'.
C8_DerivationFailureSwallowed ==
    \A b \in DOMAIN bids, notes \in NotesInputs,
       fault \in {"none", "campaign_get", "contract_set", "campaign_update"} :
        (DerivationFails(b, fault) /\ bids[b].bidderType # "buyer")
        => LET o == AcceptCall(b, notes, fault, 0)
           IN /\ o.code = 200
              /\ o.bids[b].status = "accepted"
              /\ \A s \in SweepTargets(bids, b, bids[b].campaignId) :
                    o.bids[s].status = "rejected"

\* a bid of a stored campaign is accepted, a sibling was swept, and the
\* campaign has no contract: the contract write or the campaign read raised
C8_Witness ==
    /\ LastCall("accept", 200)
    /\ result.id \in DOMAIN bids
    /\ bids[result.id].status = "accepted"
    /\ bids[result.id].campaignId \in DOMAIN campaigns
    /\ ContractsOfBid(contracts, result.id) = {}
    /\ \E s \in DOMAIN bids \ {result.id} :
          /\ bids[s].campaignId = bids[result.id].campaignId
          /\ bids[s].actionNotes = AutoRejectNote

CounterOfferCall(b, counter_amount, notes, fault, backend) ==
    BidActionOutcome(b, "counter_offer", counter_amount, notes, fault, 0, backend)

\* C9: a successful counter_offer on bid B with amount X stores B as
\* 'counter_offered' with counterAmount X and sets the stored parent
\* campaign's currentBid to X; the campaign's other fields (totalBids and
\* status among them), every other campaign, every other bid and the
\* contracts are unchanged.
C9_CounterOfferFrame ==
    \A b \in DOMAIN bids, x \in CounterInputs, notes \in NotesInputs,
       fault \in FaultsOf("counter_offer"), backend \in Backends :
        LET o == CounterOfferCall(b, x, notes, fault, backend)
            c == bids[b].campaignId
        IN o.code = 200 =>
            /\ o.bids[b].status = "counter_offered"
            /\ o.bids[b].counterAmount = x
            /\ x \in CounterAmounts
            /\ DOMAIN o.bids = DOMAIN bids
            /\ \A other \in DOMAIN bids \ {b} : o.bids[other] = bids[other]
            /\ DOMAIN o.campaigns = DOMAIN campaigns
            /\ \A k \in DOMAIN campaigns :
                  o.campaigns[k] =
                      IF k = c THEN [campaigns[k] EXCEPT !.currentBid = x]
                      ELSE campaigns[k]
            /\ o.contracts = contracts

\* a counter-offer went through and the campaign shows its amount
C9_Witness ==
    /\ LastCall("counter_offer", 200)
    /\ result.id \in DOMAIN bids
    /\ bids[result.id].status = "counter_offered"
    /\ bids[result.id].campaignId \in DOMAIN campaigns
    /\ campaigns[bids[result.id].campaignId].currentBid = bids[result.id].counterAmount
    /\ \E other \in DOMAIN bids \ {result.id} :
          bids[other].campaignId = bids[result.id].campaignId

\* C10: counter_offer with no counterAmount, or an empty one, fails with 400
\* once the bid is read, and leaves the bid (status, counterAmount,
\* updatedAt) and the parent campaign's currentBid as they were.
C10_CounterOfferNeedsAmount ==
    \A b \in DOMAIN bids, x \in {None, ""}, notes \in NotesInputs,
       fault \in FaultsOf("counter_offer") \ {"bid_get"}, backend \in Backends :
        LET o == CounterOfferCall(b, x, notes, fault, backend)
        IN /\ o.code = 400
           /\ o.bids = bids
           /\ <<"bids", b>> \notin o.stamped
           /\ o.campaigns = campaigns

\* a counter-offer was refused on a bid of a stored campaign
C10_Witness ==
    /\ LastCall("counter_offer", 400)
    /\ result.id \in DOMAIN bids
    /\ bids[result.id].status = "pending"
    /\ bids[result.id].counterAmount = None
    /\ bids[result.id].campaignId \in DOMAIN campaigns
    /\ campaigns[bids[result.id].campaignId].currentBid = None

\* ids the bids collection has handed out or may hand out next
BidIds == 1..(MaxBids + 1)

\* C11: handle_bid_action, for every action, and delete_bid on a bid id that
\* is not stored answer 404, create no document under the id and leave
\* every collection as it was.
C11_MissingBidNotFound ==
    \A bid_id \in BidIds \ DOMAIN bids :
        /\ \A action \in BidActions, x \in CounterInputs, notes \in NotesInputs,
              backend \in Backends :
              LET o == BidActionOutcome(bid_id, action, x, notes, "none", 0, backend)
              IN o.code = 404 /\ NothingWritten(o)
        /\ LET o == DeleteBidOutcome(bid_id)
           IN o.code = 404 /\ NothingWritten(o)

\* a bid was deleted and a later action on its id was answered 404
C11_Witness ==
    /\ result.op \in BidActions
    /\ result.code = 404
    /\ result.id <= seq.bids
    /\ result.id \notin DOMAIN bids
    /\ bids # << >>

RejectCall(b, notes, fault) ==
    BidActionOutcome(b, "reject", None, notes, fault, 0, "firestore")

\* C12: a successful reject of bid B stores B 'rejected' with rejectedBy the
\* opposite of B's bidderType; B's campaignId, bidderType, amounts are kept,
\* every other bid, every campaign and every contract is unchanged, also
\* when B was 'accepted' before the call; a reject that fails writes nothing.
C12_RejectFrame ==
    \A b \in DOMAIN bids, notes \in NotesInputs, fault \in FaultsOf("reject") :
        LET o == RejectCall(b, notes, fault)
        IN /\ o.code = 200 =>
                /\ o.bids[b].status = "rejected"
                /\ o.bids[b].rejectedBy =
                      (IF bids[b].bidderType = "farmer" THEN "buyer" ELSE "farmer")
                /\ o.bids[b] = [bids[b] EXCEPT !.status = "rejected",
                                               !.rejectedBy = o.bids[b].rejectedBy,
                                               !.actionNotes = o.bids[b].actionNotes]
                /\ DOMAIN o.bids = DOMAIN bids
                /\ \A other \in DOMAIN bids \ {b} : o.bids[other] = bids[other]
                /\ o.campaigns = campaigns
                /\ o.contracts = contracts
           /\ o.code # 200 => NothingWritten(o)

\* a bid that had been accepted was rejected: its contract and the completed
\* campaign are still there
C12_Witness ==
    /\ LastCall("reject", 200)
    /\ result.id \in DOMAIN bids
    /\ bids[result.id].status = "rejected"
    /\ bids[result.id].rejectedBy = "buyer"
    /\ ContractsOfBid(contracts, result.id) # {}
    /\ campaigns[bids[result.id].campaignId].status = "completed"

\* C13: every bid that create_bid stores has status 'pending', whatever the
\* request carries, under an id no stored bid has.
C13_CreatedPending ==
    [][result'.op = "create_bid" =>
        /\ result'.id \notin DOMAIN bids
        /\ bids'[result'.id].status = "pending"]_vars

\* C14: create_bid answers 200 for every campaignId, stored or not, and
\* writes only the new bid: the campaigns (totalBids and currentBid among
\* their fields), the contracts and the bids already stored are unchanged.
C14_CreateBidFrame ==
    \A c \in CampaignIdsInUse, u \in UserType, a \in BidAmounts, st \in BidStatus :
        LET o == CreateBidOutcome(c, u, a, st)
            new == DOMAIN o.bids \ DOMAIN bids
        IN /\ o.code = 200
           /\ Cardinality(new) = 1
           /\ \A b \in new : o.bids[b].campaignId = c
           /\ \A b \in DOMAIN bids : b \in DOMAIN o.bids /\ o.bids[b] = bids[b]
           /\ o.campaigns = campaigns
           /\ o.contracts = contracts

\* a second bid was created on a stored campaign, whose totalBids and
\* currentBid still are those of its creation
C14_Witness ==
    /\ LastCall("create_bid", 200)
    /\ result.id \in DOMAIN bids
    /\ bids[result.id].campaignId \in DOMAIN campaigns
    /\ campaigns[bids[result.id].campaignId].totalBids = 0
    /\ campaigns[bids[result.id].campaignId].currentBid = None
    /\ Cardinality(DOMAIN bids) = 2

\* C15: a stored campaign whose status is not 'completed' becomes
\* 'completed' only in a successful accept of a bid whose campaignId is that
\* campaign; no other call (campaign create, campaign update, counter_offer,
\* reject, create_bid) does it.
C15_CompletedOnlyByAccept ==
    [][\A c \in DOMAIN campaigns :
          (/\ campaigns[c].status # "completed"
           /\ c \in DOMAIN campaigns'
           /\ campaigns'[c].status = "completed")
          => (/\ result'.op = "accept"
              /\ result'.code = 200
              /\ result'.id \in DOMAIN bids
              /\ bids[result'.id].campaignId = c)]_vars

\* C20: update_campaign on a stored campaign changes only the fields the
\* body supplies (and updatedAt): a field the body leaves out keeps its
\* stored value, status, currentBid and totalBids as well as the contractId
\* and finalPrice an acceptance wrote.
C20_UpdateMerges ==
    \A c \in DOMAIN campaigns, s \in CampaignStatus \cup {Unset},
       u \in UserType \cup {Unset} :
        LET o == UpdateCampaignOutcome(c, s, u)
            old == campaigns[c]
            new == o.campaigns[c]
        IN /\ o.code = 200
           /\ new.status = (IF s = Unset THEN old.status ELSE s)
           /\ new.userType = (IF u = Unset THEN old.userType ELSE u)
           /\ new.currentBid = old.currentBid
           /\ new.totalBids = old.totalBids
           /\ new.contractId = old.contractId
           /\ new.finalPrice = old.finalPrice

CampaignIds == 1..(MaxCampaigns + 1)

\* the orders call changes nothing in its collection and stamps no document
NoOrderWritten(o) == o.orders = orders /\ o.seq = seq /\ o.stamped = {}

\* `after` is `before` without the document `id`, the others as they were
RemovedExactly(before, after, id) ==
    /\ DOMAIN after = DOMAIN before \ {id}
    /\ \A d \in DOMAIN after : after[d] = before[d]

\* C19: in the campaigns, contracts and orders registries, read by id,
\* update and delete of an id that is not stored answer 404, create no
\* document and leave the collection as it was; delete of a stored id
\* answers 200 and removes that document and no other.
C19_RegistryNotFound ==
    /\ \A id \in CampaignIds \ DOMAIN campaigns :
          /\ GetCampaignResponse(id) = [code |-> 404, body |-> None]
          /\ \A st \in CampaignStatus \cup {Unset}, u \in UserType \cup {Unset} :
                LET o == UpdateCampaignOutcome(id, st, u)
                IN o.code = 404 /\ NothingWritten(o)
          /\ LET o == DeleteCampaignOutcome(id) IN o.code = 404 /\ NothingWritten(o)
    /\ \A id \in ContractIds \ DOMAIN contracts :
          /\ GetContractResponse(id) = [code |-> 404, body |-> None]
          /\ \A st \in ContractStatus, a \in CounterAmounts :
                LET o == UpdateContractOutcome(id, st, a)
                IN o.code = 404 /\ NothingWritten(o)
          /\ LET o == DeleteContractOutcome(id) IN o.code = 404 /\ NothingWritten(o)
    /\ \A id \in OrderIds \ DOMAIN orders :
          /\ GetOrderResponse(id) = [code |-> 404, body |-> None]
          /\ \A st \in OrderStatus, a \in OrderAmounts :
                LET o == UpdateOrderOutcome(id, st, a)
                IN o.code = 404 /\ NoOrderWritten(o)
          /\ LET o == DeleteOrderOutcome(id) IN o.code = 404 /\ NoOrderWritten(o)
    /\ \A id \in DOMAIN campaigns :
          LET o == DeleteCampaignOutcome(id)
          IN /\ o.code = 200
             /\ RemovedExactly(campaigns, o.campaigns, id)
             /\ o.contracts = contracts /\ o.bids = bids
    /\ \A id \in DOMAIN contracts :
          LET o == DeleteContractOutcome(id)
          IN /\ o.code = 200
             /\ RemovedExactly(contracts, o.contracts, id)
             /\ o.campaigns = campaigns /\ o.bids = bids
    /\ \A id \in DOMAIN orders :
          LET o == DeleteOrderOutcome(id)
          IN o.code = 200 /\ RemovedExactly(orders, o.orders, id)

\* an order was deleted, a second delete of its id was answered 404, and the
\* campaign stored beside it is still there
C19_Witness ==
    /\ LastCall("delete_order", 404)
    /\ result.id <= seq.orders
    /\ result.id \notin DOMAIN orders
    /\ campaigns # << >>

\* the stored bids whose amount, the rupee sign and the commas removed,
\* parses as a number
Parsable(bs) ==
    {b \in DOMAIN bs : ParseFloat(amount_str(bs[b].bidAmount)).ok}

RECURSIVE SumOfAmounts(_, _)
SumOfAmounts(bs, ids) ==
    IF ids = {} THEN 0
    ELSE LET b == CHOOSE x \in ids : TRUE
         IN ParseFloat(amount_str(bs[b].bidAmount)).value + SumOfAmounts(bs, ids \ {b})

\* C17: get_bidding_stats reports the mean of the stored bids' parsable
\* amounts, the sum divided by the number of parsable amounts, and no
\* average only when no stored bid has a parsable amount; so for bids that
\* create_bid stored with amounts such as "Rs2,000".
C17_AverageOfParsable ==
    LET average == GetBiddingStatsResponse.body.average_bid_amount
        parsable == Parsable(bids)
    IN IF parsable = {} THEN ~average.some
       ELSE /\ average.some
            /\ average.shown = RoundedQuotient(SumOfAmounts(bids, parsable),
                                               Cardinality(parsable))

\* the bids that satisfy every filter that is sent
Selected(c, u, st) ==
    {b \in DOMAIN bids :
        /\ c # NoFilter => bids[b].campaignId = c
        /\ u # None => bids[b].bidderType = u
        /\ Truthy(st) => bids[b].status = st}

\* C18: get_all_bids returns all and only the stored bids that satisfy
\* every filter sent (campaign_id, bidder_type, status), and count is the
\* number of bids returned.
C18_FiltersSelect ==
    \A c \in CampaignIdsInUse \cup {NoFilter}, u \in UserType \cup {None},
       st \in BidStatus \cup {None} :
        LET r == GetAllBidsResponse(c, u, st)
        IN /\ r.code = 200
           /\ DOMAIN r.body.data = Selected(c, u, st)
           /\ \A b \in DOMAIN r.body.data : r.body.data[b] = bids[b]
           /\ r.body.count = Cardinality(DOMAIN r.body.data)

Done(p) == requests[p].pc = "done"

ContractsOfCampaign(ks, c) == {k \in DOMAIN ks : ks[k].originalCampaignId = c}

\* C16: two accepts of two different pending bids of one campaign,
\* interleaved store call by store call, both answer 200 whenever each bid
\* passes validation, in every interleaving; when the campaign is stored
\* each call has then written its own contract, so the campaign has two, and
\* the campaign is 'completed' with the contractId and finalPrice of the
\* call whose campaign update was written last; at least one of the two bids
\* is stored 'accepted'.
C16_RacingAcceptsBothSucceed ==
    (\A p \in Callers : Done(p)) =>
        /\ \A p \in Callers :
              requests[p].code = (IF bids[p].bidderType = "buyer" THEN 400 ELSE 200)
        /\ (\A p \in Callers : requests[p].code = 200) =>
              /\ \E p \in Callers : bids[p].status = "accepted"
              /\ bids[1].campaignId \in DOMAIN campaigns =>
                    LET c == bids[1].campaignId
                        last == CHOOSE p \in Callers : requests[p].updated = 2
                    IN /\ \A p \in Callers :
                             ContractsOfBid(contracts, p) = {requests[p].contract_id}
                       /\ Cardinality(ContractsOfCampaign(contracts, c)) = 2
                       /\ campaigns[c].status = "completed"
                       /\ campaigns[c].contractId = requests[last].contract_id
                       /\ campaigns[c].finalPrice = bids[last].bidAmount

\* both calls answered 200, both bids are stored 'accepted', the campaign
\* has two contracts and names the contract of the second bid, which was
\* written first: the campaign update written last decides
C16_Witness ==
    /\ \A p \in Callers : Done(p) /\ requests[p].code = 200
    /\ \A p \in Callers : bids[p].status = "accepted"
    /\ Cardinality(ContractsOfCampaign(contracts, 1)) = 2
    /\ campaigns[1].status = "completed"
    /\ campaigns[1].contractId = requests[2].contract_id
    /\ campaigns[1].finalPrice = "Rs2500"
    /\ requests[2].contract_id = 1

\* C21: after any sequence of create_order, update_order and
\* update_order_status calls every stored order's status is one of pending,
\* shipped, delivered, cancelled; update_order_status of a stored order with
\* another or no status value answers 400 and writes nothing, and with a
\* supported value it answers 200 and changes only the order's status and
\* updatedAt.
C21_OrderStatusSupported ==
    /\ \A id \in DOMAIN orders : orders[id].status \in OrderStatus
    /\ \A id \in DOMAIN orders, s \in StatusInputs :
          LET o == UpdateOrderStatusOutcome(id, s)
          IN IF s \in OrderStatus
             THEN /\ o.code = 200
                  /\ o.orders = [orders EXCEPT ![id].status = s]
                  /\ o.seq = seq
                  /\ o.stamped = {<<"orders", id>>}
             ELSE o.code = 400 /\ NoOrderWritten(o)

\* a status update with an unsupported value has been refused on an order
\* whose status an earlier call had moved to 'delivered'
C21_Witness ==
    /\ result = Result("update_order_status", 400, 1)
    /\ 1 \in DOMAIN orders
    /\ orders[1].status = "delivered"

\* the bids that the running accept of bid p has auto-rejected
SweptBy(p) ==
    {o \in DOMAIN bids \ {p} :
        /\ bids[o].campaignId = bids[p].campaignId
        /\ bids[o].status = "rejected"
        /\ bids[o].actionNotes = AutoRejectNote}

\* C22: the target bid's 'accepted' status is written before any sibling is
\* auto-rejected, before the contract write and before the campaign update:
\* in every intermediate store state of one accept (no other request has
\* started) in which a sibling has been auto-rejected or a contract for the
\* bid exists, the target bid is stored as 'accepted'.
C22_AcceptedBeforeEffects ==
    \A p \in Callers :
        (/\ \A q \in Callers \ {p} : requests[q] = Arrived
         /\ requests[p].pc \notin {"get_bid", "done"}
         /\ SweptBy(p) # {} \/ ContractsOfBid(contracts, p) # {})
            => bids[p].status = "accepted"

\* the role assignment of a contract derived from bid_data and campaign_data
PartiesByRole(contract, bid_data, campaign_data) ==
    /\ bid_data.bidderType = "farmer" =>
          contract.farmerId = bid_data.bidderId /\ contract.buyerId = campaign_data.userId
    /\ bid_data.bidderType = "buyer" =>
          contract.buyerId = bid_data.bidderId /\ contract.farmerId = campaign_data.userId

\* the fields every derived contract has, whatever its bid and campaign
DerivedFrom(contract, bid_data, bid_id, campaign_id, campaign_data) ==
    /\ contract.status = "completed"
    /\ contract.totalBids = 1
    /\ contract.minimumQuotation = contract.agreedPrice
    /\ contract.currentBid = contract.agreedPrice
    /\ contract.originalBidId = bid_id
    /\ contract.originalCampaignId = campaign_id
    /\ contract.crop = campaign_data.crop
    /\ contract.cropType = campaign_data.cropType
    /\ contract.location = campaign_data.location
    /\ contract.duration = campaign_data.duration
    /\ PartiesByRole(contract, bid_data, campaign_data)

\* C23: every contract derived from accepting bid B on campaign C has status
\* 'completed', totalBids 1, minimumQuotation = currentBid = agreedPrice,
\* originalBidId B, originalCampaignId C, crop, cropType, location and
\* duration copied from C, and the parties by role: the bidder is the farmer
\* and C's creator the buyer when B is a farmer's bid, the bidder the buyer
\* and C's creator the farmer when B is a buyer's bid.  Both the contracts in
\* the store and the contract the derivation builds from any stored bid and
\* campaign are of this form.
C23_ContractDerivedFields ==
    /\ \A k \in DOMAIN contracts :
          LET b == contracts[k].originalBidId
              c == contracts[k].originalCampaignId
          IN /\ b \in DOMAIN bids /\ c \in DOMAIN campaigns
             /\ bids[b].campaignId = c
             /\ DerivedFrom(contracts[k], bids[b], b, c, campaigns[c])
    /\ \A b \in DOMAIN bids, c \in DOMAIN campaigns :
          DerivedFrom(contract_data(bids[b], b, c, campaigns[c]), bids[b], b, c,
                      campaigns[c])

\* an accepted farmer's bid on a campaign of the second crop has a contract,
\* bidder and creator being two different parties, and a buyer's bid is stored
C23_Witness ==
    /\ result = Result("accept", 200, 1)
    /\ ContractsOfBid(contracts, 1) # {}
    /\ campaigns[1].crop = "Rice"
    /\ bids[1].bidderId = "farmer_1" /\ campaigns[1].userId = "buyer_1"
    /\ 2 \in DOMAIN bids /\ bids[2].bidderType = "buyer"
    /\ bids[2].bidderId = "buyer_1" /\ campaigns[1].userId = "buyer_1"

\* C24: 'accepted' and 'rejected' are terminal: no step changes the status
\* of a bid that is stored 'accepted' or 'rejected', and a step that changes
\* the status of a 'pending' or 'counter_offered' bid moves it to
\* 'counter_offered', 'accepted' or 'rejected'.
C24_TerminalStatuses ==
    [][\A b \in DOMAIN bids :
          /\ bids[b].status \in {"accepted", "rejected"} =>
                bids'[b].status = bids[b].status
          /\ bids'[b].status # bids[b].status =>
                bids'[b].status \in {"counter_offered", "accepted", "rejected"}]_vars

\* the same call with the store answering every store call
Unfailing(b, action, counter_amount, notes, backend) ==
    BidActionOutcome(b, action, counter_amount, notes, "none", 0, backend)

\* C25: whenever handle_bid_action returns an error (404, 400, or 500
\* because a store call raised), the store is as it was before the call.
C25_FailedCallWritesNothing ==
    \A b \in 1..MaxBids, action \in BidActions :
    \A counter_amount \in (IF action = "counter_offer" THEN CounterInputs ELSE {None}),
       notes \in NotesInputs, fault \in FaultsOf(action) :
    \A failing \in FailingOf(b, action, fault), backend \in BackendsOf(b, action) :
        LET o == BidActionOutcome(b, action, counter_amount, notes, fault, failing, backend)
        IN o.code # 200 => NothingWritten(o)

\* C25 as amended: a call answered 404 or 400 leaves the store as it was; a
\* call answered 500 leaves the target bid as it was and no document added
\* or removed among bids and campaigns, but keeps what it wrote before the
\* store call that raised: each other bid, each campaign and the contracts
\* are either as before or as the same call writes them when no store call
\* raises.
C25_FailedCallKeepsTargetBid ==
    \A b \in 1..MaxBids, action \in BidActions :
    \A counter_amount \in (IF action = "counter_offer" THEN CounterInputs ELSE {None}),
       notes \in NotesInputs, fault \in FaultsOf(action) :
    \A failing \in FailingOf(b, action, fault), backend \in BackendsOf(b, action) :
        LET o == BidActionOutcome(b, action, counter_amount, notes, fault, failing, backend)
        IN /\ o.code \in {200, 400, 404, 500}
           /\ o.code \in {400, 404} => NothingWritten(o)
           /\ o.code = 500 =>
                 LET s == Unfailing(b, action, counter_amount, notes, backend)
                 IN /\ DOMAIN o.bids = DOMAIN bids
                    /\ DOMAIN o.campaigns = DOMAIN campaigns
                    /\ b \in DOMAIN bids => o.bids[b] = bids[b]
                    /\ \A other \in DOMAIN bids :
                          o.bids[other] \in {bids[other], s.bids[other]}
                    /\ \A c \in DOMAIN campaigns :
                          o.campaigns[c] \in {campaigns[c], s.campaigns[c]}
                    /\ o.contracts \in {contracts, s.contracts}

\* an accept answered 500 on its closing update: the target bid is still
\* 'pending', its sibling is auto-rejected, its contract is stored and its
\* campaign is 'completed'
C25_Witness ==
    /\ result.op = "accept" /\ result.code = 500
    /\ result.id \in DOMAIN bids
    /\ bids[result.id].status = "pending"
    /\ ContractsOfBid(contracts, result.id) # {}
    /\ campaigns[bids[result.id].campaignId].status = "completed"
    /\ \E other \in DOMAIN bids \ {result.id} :
          bids[other].actionNotes = AutoRejectNote

\* C26: in every state reachable through create_bid and handle_bid_action
\* calls, interleaved ones included, a campaign that has a contractId has
\* status 'completed', and the contract of that id is stored with
\* originalCampaignId the campaign's id and agreedPrice the campaign's
\* finalPrice.
C26_CampaignContractLink ==
    \A c \in DOMAIN campaigns :
        campaigns[c].contractId # NoId =>
            /\ campaigns[c].status = "completed"
            /\ campaigns[c].contractId \in DOMAIN contracts
            /\ contracts[campaigns[c].contractId].originalCampaignId = c
            /\ contracts[campaigns[c].contractId].agreedPrice = campaigns[c].finalPrice

\* between two store calls of the second accept: the campaign names the
\* first accept's contract, the second accept has written its own contract
\* and not yet its campaign update, and a counter-offer has priced bid 1
C26_Witness ==
    /\ campaigns[1].contractId = requests[1].contract_id
    /\ requests[1].contract_id # NoId
    /\ campaigns[1].finalPrice = "Rs2500"
    /\ bids[1].counterAmount = "Rs2500"
    /\ requests[2].pc = "campaign_update"
    /\ Cardinality(DOMAIN contracts) = 2

\* the open streams of user u, and the one opened last
OpenStreams(u) == {s \in streams : s.user = u}

LastOpened(u) == CHOOSE s \in OpenStreams(u) : \A t \in OpenStreams(u) : t.queue <= s.queue

\* C27: while an SSE stream of user u is open, active_sessions[u] is the
\* request queue and session_modes[u] the mode of u's open stream (of the
\* one opened last when u has several), and send_message_endpoint(u) does
\* not answer 'Session not found'; so the end of a first stream leaves the
\* entries of a second stream of the same user in place.
C27_OpenStreamRegistered ==
    \A u \in Users :
        OpenStreams(u) # {} =>
            /\ u \in DOMAIN active_sessions
            /\ active_sessions[u] = LastOpened(u).queue
            /\ u \in DOMAIN session_modes
            /\ session_modes[u] = LastOpened(u).mode
            /\ SendMessageResponse(u).answer # "Session not found"

\* the bids stored for campaign c
BidsOn(bs, c) == {b \in DOMAIN bs : bs[b].campaignId = c}

\* C28: create_bid_tool is all-or-nothing: with a success message exactly
\* one bid for campaign_id was added and that campaign's totalBids grew by
\* exactly 1; with an error message no bid document was added; hence every
\* campaign's totalBids is the number of bids created for it through the tool.
\* (The call recorded with code 500 returned the error message; its id is
\* the id a bid added by it has.)
C28_ToolAllOrNothing ==
    /\ \A c \in DOMAIN campaigns \cup {NoCampaign}, a \in BidAmounts,
          fault \in ToolFaults :
          LET o == CreateBidToolOutcome(c, a, fault)
          IN o.message = "success" =>
                /\ Cardinality(DOMAIN o.bids \ DOMAIN bids) = 1
                /\ \A b \in DOMAIN bids : o.bids[b] = bids[b]
                /\ \A b \in DOMAIN o.bids \ DOMAIN bids : o.bids[b].campaignId = c
                /\ o.campaigns[c].totalBids = campaigns[c].totalBids + 1
    /\ (result.op = "create_bid_tool" /\ result.code = 500) =>
          result.id \notin DOMAIN bids
    /\ \A c \in DOMAIN campaigns :
          campaigns[c].totalBids = Cardinality(BidsOn(bids, c))

\* C29: after any sequence of add, set and delete operations, add stores
\* the document under an id not used in the collection: it overwrites no
\* document and the collection grows by exactly 1.
C29_AddUsesFreshId ==
    [][mock_reply'.op = "add" =>
          /\ mock_reply'.id \notin DOMAIN mock_db
          /\ \A d \in DOMAIN mock_db : mock_db'[d] = mock_db[d]
          /\ Cardinality(DOMAIN mock_db') = Cardinality(DOMAIN mock_db) + 1]_vars

\* the last n messages added to a session, in the order they were added
MostRecent(session) ==
    LET n == IF session.added < HistoryLimit THEN session.added ELSE HistoryLimit
    IN /\ Len(session.chat_history) = n
       /\ \A i \in 1..n : session.chat_history[i].content = session.added - n + i

\* C30: after any sequence of add_message calls a session's chat_history
\* holds at most 20 messages, the most recent ones in arrival order;
\* get_user_session returns the same session object for a phone number
\* until '/clear' is processed for it, and after '/clear' the number has no
\* session, so that the next get_user_session returns a new object with an
\* empty history and no preferred language.
C30_SessionHistoryAndClear ==
    /\ [](\A phone \in DOMAIN user_sessions :
            /\ Len(user_sessions[phone].chat_history) <= 20
            /\ MostRecent(user_sessions[phone])
            /\ get_user_session(user_sessions, phone, arrived.sessions + 1)[phone]
                  = user_sessions[phone])
    /\ [](\A phone \in Phones \ DOMAIN user_sessions :
            LET fresh == get_user_session(user_sessions, phone,
                                          arrived.sessions + 1)[phone]
            IN /\ fresh.chat_history = << >>
               /\ fresh.preferred_language = None
               /\ \A other \in DOMAIN user_sessions :
                     user_sessions[other].born # fresh.born)
    /\ [][\A phone \in Phones :
            /\ arrived'.last = <<phone, "clear">> => phone \notin DOMAIN user_sessions'
            /\ (phone \in DOMAIN user_sessions /\ phone \in DOMAIN user_sessions')
                  => user_sessions'[phone].born = user_sessions[phone].born]_vars

\* a session made after a '/clear' has had 22 messages added and holds the
\* 3rd to the 22nd
C30_Witness ==
    \E phone \in DOMAIN user_sessions :
        /\ user_sessions[phone].born = 2
        /\ user_sessions[phone].added = 22
        /\ Len(user_sessions[phone].chat_history) = 20
        /\ user_sessions[phone].chat_history[1].content = 3
        /\ user_sessions[phone].preferred_language = "hi"

====
